---- MODULE Spec2Model ----
(***************************************************************************)
(* Switch Pro Controller driver (sammysswitchprodriver.cpp): the driver    *)
(* facade, the connection lifecycle, the report codec and the bounded      *)
(* feature queue between the input-report callback and the neural          *)
(* processing loop.                                                        *)
(*                                                                         *)
(* Three execution contexts take steps: "caller" (the thread that calls    *)
(* the public operations), "event" (inputThread, whose CFRunLoopRun() is   *)
(* the event loop start() sets up; the host HID subsystem delivers its     *)
(* callbacks while that loop runs) and "proc" (processingThread, which     *)
(* runs neuralProcessingLoop).  Every step is one access to shared state.  *)
(* The host subsystem is the environment: it decides which callbacks       *)
(* arrive, when an output report is accepted and when a run loop returns.  *)
(***************************************************************************)
EXTENDS Integers, Sequences, FiniteSets, TLC

\* ------------------------------------------------------------------ bounds

\* Host subsystem handles that initialize() may create in one run.
MaxInits == 1
\* Device handles the host may match in one run.
MaxDevices == 1
\* Input reports the host delivers in one run of Spec.
MaxReports == 2
\* Host write calls recorded in one run of Spec.
MaxWrites == 3
\* Readings the clock may return in Spec.
MaxTime == 2
\* Input reports the host delivers in one run of QueueSpec.
QueueMaxReports == 102
\* Host write calls recorded in one run of CodecSpec.
CodecMaxWrites == 2
\* Input reports the host delivers in one run of DpadSpec.
DpadMaxReports == 1
\* Input reports the host delivers in one run of LoopSpec.
LoopMaxReports == 2
\* Device handles the host may match in one run of PipelineSpec, the one of
\* its initial state included.
PipelineMaxDevices == 2

\* -------------------------------------------------------- program constants

\* featureQueue.size() > 100
QueueCapacity == 100
\* uint64_t timestamps, kept at 30 bits (TLC's integers are 32 bits wide).
TimestampModulus == 1073741824

NoDevice == 0
NoManager == 0
Free == "free"
Threads == {"caller", "event", "proc"}

\* --------------------------------------------------------------- bit helpers

RECURSIVE BitAnd(_, _)
BitAnd(a, b) ==
    IF a = 0 \/ b = 0 THEN 0
    ELSE (a % 2) * (b % 2) + 2 * BitAnd(a \div 2, b \div 2)

RECURSIVE BitOr(_, _)
BitOr(a, b) ==
    IF a = 0 THEN b
    ELSE IF b = 0 THEN a
    ELSE (IF (a % 2) + (b % 2) > 0 THEN 1 ELSE 0) + 2 * BitOr(a \div 2, b \div 2)

\* static_cast<uint8_t>(x)
U8(x) == x % 256
\* a uint16_t parameter
U16(x) == x % 65536

\* Zero-based access, as the code indexes its buffers.
At(bytes, i) == bytes[i + 1]

\* ------------------------------------------------------------- report codec

\* rumbleData with four trailing zero bytes instead of five.
RumbleDataShort(lowFreq, highFreq) ==
    << 16, 128, 0, 0, 0,
       U8(BitAnd(highFreq, 255)), U8(highFreq \div 256),
       U8(BitAnd(lowFreq, 255)), U8(lowFreq \div 256),
       0, 0, 0, 0 >>

\* rumbleData with the two frequencies in each other's place.
RumbleDataSwapped(lowFreq, highFreq) ==
    << 16, 128, 0, 0, 0,
       U8(BitAnd(lowFreq, 255)), U8(lowFreq \div 256),
       U8(BitAnd(highFreq, 255)), U8(highFreq \div 256),
       0, 0, 0, 0, 0 >>

\* uint8_t rumbleData[] = { ... } of rumble()
RumbleData(lowFreq, highFreq) ==
    << 16, 128, 0, 0, 0,
       U8(BitAnd(highFreq, 255)), U8(highFreq \div 256),
       U8(BitAnd(lowFreq, 255)), U8(lowFreq \div 256),
       0, 0, 0, 0, 0 >>

\* ledData without the mask.
LedDataUnmasked(pattern) == << 1, U8(pattern) >>

\* uint8_t ledData[] = {0x01, pattern & 0x0F} of setLEDPattern()
LedData(pattern) == << 1, U8(BitAnd(pattern, 15)) >>

\* uint8_t initData[] = {0x80, 0x01} of setupController()
InitData == << 128, 1 >>

\* A check that lets every handle pass.
ConnectedAlways(device) == TRUE

\* if (!connectedDevice) return;
Connected(device) == device # NoDevice

\* ------------------------------------------------------------------- decode

\* report[i]: a byte of the report, or a byte of whatever lies behind it when
\* i is not below reportLength.
ReportByte(report, i, junk) == IF i < Len(report) THEN At(report, i) ELSE junk

\* currentState.buttons of processInputReport()
DecodeButtons(buttons1, buttons3) ==
    LET bit(b, mask, flag) == IF BitAnd(b, mask) # 0 THEN flag ELSE 0
    IN  BitOr(bit(buttons1, 1, 1),
        BitOr(bit(buttons1, 2, 2),
        BitOr(bit(buttons1, 4, 4),
        BitOr(bit(buttons1, 8, 8),
        BitOr(bit(buttons3, 32, 16),
        BitOr(bit(buttons1, 64, 32),
        BitOr(bit(buttons3, 64, 64),
              bit(buttons1, 128, 128))))))))

\* The report bit processInputReport() reads for each button (the comments of
\* lines 492-499 and the tests of lines 515-522 name the buttons).
Pressed(report, button) ==
    CASE button = "Y"  -> BitAnd(At(report, 1), 1) # 0
      [] button = "X"  -> BitAnd(At(report, 1), 2) # 0
      [] button = "B"  -> BitAnd(At(report, 1), 4) # 0
      [] button = "A"  -> BitAnd(At(report, 1), 8) # 0
      [] button = "L"  -> BitAnd(At(report, 3), 32) # 0
      [] button = "R"  -> BitAnd(At(report, 1), 64) # 0
      [] button = "ZL" -> BitAnd(At(report, 3), 64) # 0
      [] button = "ZR" -> BitAnd(At(report, 1), 128) # 0

\* The basic driver (unnamed/part_000): uint8_t dpad_state = buttons3 & 0x0F;
DpadState(buttons3) == BitAnd(buttons3, 15)

\* dpad_states[]: the arrows from up clockwise to up-left, then the dot for
\* neutral.
DpadStates ==
    << "up", "up-right", "right", "down-right", "down", "down-left", "left",
       "up-left", "neutral" >>

\* dpad = dpad_states[8]; if (dpad_state < 8) dpad = dpad_states[dpad_state];
Dpad(buttons3) ==
    IF DpadState(buttons3) < 8 THEN DpadStates[DpadState(buttons3) + 1]
    ELSE DpadStates[9]

\* The basic driver: one of the fourteen *_pressed flags is set.
AnyPressed(buttons1, buttons2, buttons3) ==
    \/ BitAnd(buttons1, 1 + 2 + 4 + 8 + 64 + 128) # 0
    \/ BitAnd(buttons2, 1 + 2 + 4 + 8 + 16 + 32) # 0
    \/ BitAnd(buttons3, 32 + 64) # 0

\* The basic driver: the condition under which the report is printed.
Printed(buttons1, buttons2, buttons3) ==
    AnyPressed(buttons1, buttons2, buttons3) \/ DpadState(buttons3) # 8

\* if (reportLength < 3) return;
TooShort(report) == Len(report) < 3

\* The indices processInputReport() reads of a report that passed the length
\* test: report[1], report[2], report[3], then report[6] and report[8] if
\* reportLength > 8, report[10] and report[12] if reportLength > 12.
IndicesRead(report) ==
    {1, 2, 3}
        \cup (IF Len(report) > 8 THEN {6, 8} ELSE {})
        \cup (IF Len(report) > 12 THEN {10, 12} ELSE {})

\* The ControllerState processInputReport() leaves in currentState.  Stick
\* values (report[i] / 255.0) are kept in units of 1/510, so that report byte b
\* is 2 * b and the constructor's 0.5 is 255.
DecodeState(state, report, now, junk) ==
    LET buttons1 == ReportByte(report, 1, junk)
        buttons3 == ReportByte(report, 3, junk)
        sticksL  == Len(report) > 8
        sticksR  == Len(report) > 12
    IN  [ leftStickX  |-> IF sticksL THEN 2 * At(report, 6) ELSE state.leftStickX,
          leftStickY  |-> IF sticksL THEN 2 * At(report, 8) ELSE state.leftStickY,
          rightStickX |-> IF sticksR THEN 2 * At(report, 10) ELSE state.rightStickX,
          rightStickY |-> IF sticksR THEN 2 * At(report, 12) ELSE state.rightStickY,
          triggerL    |-> state.triggerL,
          triggerR    |-> state.triggerR,
          buttons     |-> DecodeButtons(buttons1, buttons3),
          timestamp   |-> now % TimestampModulus ]

\* currentState = {0.5, 0.5, 0.5, 0.5, 0.0, 0.0, 0, 0}
InitialState ==
    [ leftStickX |-> 255, leftStickY |-> 255, rightStickX |-> 255,
      rightStickY |-> 255, triggerL |-> 0, triggerR |-> 0, buttons |-> 0,
      timestamp |-> 0 ]

\* --------------------------------------------------------- feature pipeline

\* sqrt(), rounded down to the unit of the stick values
Sqrt(n) == CHOOSE r \in 0..722 : r * r <= n /\ (r + 1) * (r + 1) > n

\* The features with the time delta taken as a signed difference.
FeatureVectorSigned(state, lastTimestamp) ==
    LET flag(mask) == IF BitAnd(state.buttons, mask) # 0 THEN 1 ELSE 0
    IN  << state.leftStickX, state.leftStickY, state.rightStickX, state.rightStickY,
           state.triggerL, state.triggerR,
           flag(1), flag(2), flag(4), flag(8), flag(16), flag(32), flag(64), flag(128),
           Sqrt(state.leftStickX * state.leftStickX + state.leftStickY * state.leftStickY),
           Sqrt(state.rightStickX * state.rightStickX + state.rightStickY * state.rightStickY),
           IF lastTimestamp > 0 THEN state.timestamp - lastTimestamp ELSE 0 >>

\* The 17 features of createFeatureVector(); the last one, timeDelta, is kept
\* in microseconds.
FeatureVector(state, lastTimestamp) ==
    LET flag(mask) == IF BitAnd(state.buttons, mask) # 0 THEN 1 ELSE 0
    IN  << state.leftStickX, state.leftStickY, state.rightStickX, state.rightStickY,
           state.triggerL, state.triggerR,
           flag(1), flag(2), flag(4), flag(8), flag(16), flag(32), flag(64), flag(128),
           Sqrt(state.leftStickX * state.leftStickX + state.leftStickY * state.leftStickY),
           Sqrt(state.rightStickX * state.rightStickX + state.rightStickY * state.rightStickY),
           IF lastTimestamp > 0
           THEN (state.timestamp - lastTimestamp) % TimestampModulus
           ELSE 0 >>

\* A size limit that is one too high.
OverLimitByTwo(queue) == Len(queue) > QueueCapacity + 1

\* The buttons createFeatureVector() names for features [6] to [13], in order.
FlagButtons == << "A", "B", "X", "Y", "L", "R", "ZL", "ZR" >>

\* if (featureQueue.size() > 100)
OverLimit(queue) == Len(queue) > QueueCapacity

\* A pop at the wrong end.
PopNewest(queue) == SubSeq(queue, 1, Len(queue) - 1)

\* featureQueue.pop(): std::queue removes the front, the oldest element
Pop(queue) == Tail(queue)

\* An eviction that drops the vector just pushed.
EvictNewest(queue) == IF OverLimit(queue) THEN PopNewest(queue) ELSE queue

\* if (featureQueue.size() > 100) { featureQueue.pop(); }
Evict(queue) == IF OverLimit(queue) THEN Pop(queue) ELSE queue

\* The newest element, where the loop takes the oldest.
Back(queue) == queue[Len(queue)]

\* featureQueue.front()
Front(queue) == Head(queue)

\* The labels neuralEngine.processControllerFeatures() returns.
Labels ==
    { "PROCESSOR_NOT_READY", "OBJC_UNAVAILABLE", "NO_DATA", "ERROR",
      "PREDICTION_ERROR", "GESTURE_DETECTED", "NO_GESTURE", "UNKNOWN" }

\* -------------------------------------------------------------------- state

VARIABLES
    hidManager,        \* IOHIDManagerRef hidManager (NoManager: nullptr)
    managers,          \* host side: what became of each manager handle
    isRunning,         \* std::atomic<bool> isRunning
    connectedDevice,   \* IOHIDDeviceRef connectedDevice (NoDevice: nullptr)
    processingEnabled, \* std::atomic<bool> processingEnabled
    featureQueue,      \* std::queue<std::vector<double>> featureQueue
    queueMutex,        \* std::mutex queueMutex: Free, or the thread holding it
    currentState,      \* ControllerState currentState
    lastTimestamp,     \* static uint64_t lastTimestamp of createFeatureVector()
    pc,                \* where each thread is ("none": no such thread)
    arg,               \* the arguments of the call each thread is in
    dev,               \* the device handle each thread holds in a local
    ret,               \* where each thread continues after the call it is in
    features,          \* the vector extractFeatures() is about to push
    taken,             \* the vector neuralProcessingLoop() has just popped
    hostWrites,        \* host side: the IOHIDDeviceSetReport calls, in order
    attached,          \* host side: the devices matched and not yet removed
    matched,           \* host side: how many devices were matched so far
    reports,           \* host side: how many input reports were delivered
    lastReport,        \* host side: the last input report delivered
    lastCommand,       \* history: what the last rumble()/setLEDPattern() call did
    enqueued,          \* history: the vectors pushed, in order
    delivered,         \* history: the vectors handed to the neural engine
    evicted,           \* history: the ids of the vectors the size limit dropped
    stops,             \* history: the stop() calls the caller made in a row (at most 2)
    fresh,             \* history: processing was switched on and no vector derived since
    shown,             \* what the report handler of the basic driver decoded and printed
    lastResult         \* history: the label the neural engine returned last

vars ==
    << hidManager, managers, isRunning, connectedDevice, processingEnabled,
       featureQueue, queueMutex, currentState, lastTimestamp, pc, arg, dev, ret,
       features, taken, hostWrites, attached, matched, reports, lastReport,
       lastCommand, enqueued, delivered, evicted, stops, fresh, shown, lastResult >>

\* What the driver object itself holds (no thread position, no host history).
driverState ==
    << hidManager, isRunning, connectedDevice, processingEnabled, featureQueue,
       queueMutex, currentState, lastTimestamp >>

eventVars == << attached, matched, reports, lastReport >>
hostVars == << hostWrites, eventVars, lastCommand >>
queueVars == << featureQueue, queueMutex, features, taken, enqueued, delivered, evicted >>
managerVars == << hidManager, managers, isRunning >>
stateVars == << currentState, lastTimestamp >>
callVars == << arg, dev, ret >>

None == << >>

\* std::string result before any label was returned
NoResult == ""

\* SwitchProController::SwitchProController()
Constructed ==
    /\ hidManager = NoManager
    /\ managers = [h \in 1..MaxInits |-> [state |-> "none", releases |-> 0]]
    /\ isRunning = FALSE
    /\ connectedDevice = NoDevice
    /\ processingEnabled = FALSE
    /\ featureQueue = << >>
    /\ queueMutex = Free
    /\ currentState = InitialState
    /\ lastTimestamp = 0
    /\ pc = [t \in Threads |-> IF t = "caller" THEN "idle" ELSE "none"]
    /\ arg = [t \in Threads |-> None]
    /\ dev = [t \in Threads |-> NoDevice]
    /\ ret = [t \in Threads |-> "idle"]
    /\ features = None
    /\ taken = None
    /\ hostWrites = << >>
    /\ attached = {}
    /\ matched = 0
    /\ reports = 0
    /\ lastReport = << >>
    /\ lastCommand = None
    /\ enqueued = << >>
    /\ delivered = << >>
    /\ evicted = {}
    /\ stops = 0
    /\ fresh = FALSE
    /\ shown = None
    /\ lastResult = NoResult

\* One thread moves to another place.
Goto(t, place) == pc' = [pc EXCEPT ![t] = place]

\* A call's entry: its arguments and the place it returns to.
Call(t, place, a, back) ==
    /\ pc' = [pc EXCEPT ![t] = place]
    /\ arg' = [arg EXCEPT ![t] = a]
    /\ ret' = [ret EXCEPT ![t] = back]

\* A call's return.
Return(t) ==
    /\ pc' = [pc EXCEPT ![t] = ret[t]]
    /\ arg' = [arg EXCEPT ![t] = None]
    /\ ret' = [ret EXCEPT ![t] = "idle"]

\* IOHIDDeviceSetReport(device, kIOHIDReportTypeOutput, reportID, data, sizeof(data));
\* success is the host's result (kIOReturnSuccess or not); by and call are
\* history: the thread and the operation that wrote, with its arguments.
SetReport(t, device, reportID, data, call, success) ==
    hostWrites' = Append(hostWrites, [by |-> t, dev |-> device, reportID |-> reportID,
                                      data |-> data, call |-> call, ok |-> success])

\* Where a thread is when it is in none of the driver's operations.
Home(t) == IF t = "proc" THEN "loop_test" ELSE "idle"

\* std::thread::join() on the thread that calls it throws std::system_error
\* (resource_deadlock_would_occur); nothing catches it, so std::terminate()
\* ends the process and with it every thread.
Terminate == pc' = [u \in Threads |-> "terminated"]

\* The host delivers callbacks for a manager that is open.
ManagerOpen == \E h \in 1..MaxInits : managers[h].state = "open"

\* What rumble() and setLEDPattern() hand back to their caller for the host's
\* result: both are void, the result only selects whether a line is printed.
Returned(success) == None

\* What lastCommand records of a call: the thread, the operation, whether a
\* host write was made, the host's result, the line printed, the value returned.
Command(t, op, wrote, success) ==
    [by |-> t, op |-> op, wrote |-> wrote, accepted |-> success,
     printed |-> success, returned |-> Returned(success)]

\* --------------------------------------------------- rumble, setLEDPattern

\* rumble(lowFreq, highFreq, duration_ms), called by the caller
CallRumble(lowFreq, highFreq) ==
    /\ pc["caller"] = "idle"
    /\ Call("caller", "rumble_check", << U16(lowFreq), U16(highFreq) >>, "idle")
    /\ stops' = 0
    /\ UNCHANGED << fresh, shown, lastResult >>
    /\ UNCHANGED << managerVars, connectedDevice, processingEnabled, queueVars,
                    stateVars, dev, hostVars >>

\* setLEDPattern(pattern), called by the caller
CallSetLEDPattern(pattern) ==
    /\ pc["caller"] = "idle"
    /\ Call("caller", "led_check", << U8(pattern) >>, "idle")
    /\ stops' = 0
    /\ UNCHANGED << fresh, shown, lastResult >>
    /\ UNCHANGED << managerVars, connectedDevice, processingEnabled, queueVars,
                    stateVars, dev, hostVars >>

\* rumble(): if (!connectedDevice) return;
RumbleCheck(t) ==
    /\ pc[t] = "rumble_check"
    /\ IF Connected(connectedDevice)
       THEN /\ Goto(t, "rumble_write")
            /\ dev' = [dev EXCEPT ![t] = connectedDevice]
            /\ UNCHANGED << arg, ret >>
       ELSE /\ Return(t)
            /\ UNCHANGED dev
    /\ lastCommand' = IF Connected(connectedDevice) THEN lastCommand
                      ELSE Command(t, "rumble", FALSE, FALSE)
    /\ UNCHANGED << stops, fresh, shown, lastResult >>
    /\ UNCHANGED << managerVars, connectedDevice, processingEnabled, queueVars,
                    stateVars, hostWrites, eventVars >>

\* rumble(): IOHIDDeviceSetReport(connectedDevice, ..., 0x10, rumbleData, ...).
\* connectedDevice is read a second time with no synchronisation: the handle
\* passed is the one the null test saw or the one stored now.  The host
\* decides the result (kIOReturnSuccess or not).
RumbleWrite(t) ==
    /\ pc[t] = "rumble_write"
    /\ \E device \in {dev[t], connectedDevice}, success \in BOOLEAN :
           /\ SetReport(t, device, 16, RumbleData(arg[t][1], arg[t][2]),
                        << "rumble", arg[t][1], arg[t][2] >>, success)
           /\ lastCommand' = Command(t, "rumble", TRUE, success)
    /\ Return(t)
    /\ dev' = [dev EXCEPT ![t] = NoDevice]
    /\ UNCHANGED << stops, fresh, shown, lastResult >>
    /\ UNCHANGED << managerVars, connectedDevice, processingEnabled, queueVars,
                    stateVars, eventVars >>

\* setLEDPattern(): if (!connectedDevice) return;
LedCheck(t) ==
    /\ pc[t] = "led_check"
    /\ IF Connected(connectedDevice)
       THEN /\ Goto(t, "led_write")
            /\ dev' = [dev EXCEPT ![t] = connectedDevice]
            /\ UNCHANGED << arg, ret >>
       ELSE /\ Return(t)
            /\ UNCHANGED dev
    /\ lastCommand' = IF Connected(connectedDevice) THEN lastCommand
                      ELSE Command(t, "led", FALSE, FALSE)
    /\ UNCHANGED << stops, fresh, shown, lastResult >>
    /\ UNCHANGED << managerVars, connectedDevice, processingEnabled, queueVars,
                    stateVars, hostWrites, eventVars >>

\* setLEDPattern(): IOHIDDeviceSetReport(connectedDevice, ..., 0x01, ledData, ...)
LedWrite(t) ==
    /\ pc[t] = "led_write"
    /\ \E device \in {dev[t], connectedDevice}, success \in BOOLEAN :
           /\ SetReport(t, device, 1, LedData(arg[t][1]), << "led", arg[t][1] >>,
                        success)
           /\ lastCommand' = Command(t, "led", TRUE, success)
    /\ Return(t)
    /\ dev' = [dev EXCEPT ![t] = NoDevice]
    /\ UNCHANGED << stops, fresh, shown, lastResult >>
    /\ UNCHANGED << managerVars, connectedDevice, processingEnabled, queueVars,
                    stateVars, eventVars >>

\* ------------------------------------------------- enableNeuralProcessing

\* enableNeuralProcessing(enable), called by the caller
CallEnableNeuralProcessing(enable) ==
    /\ pc["caller"] = "idle"
    /\ Call("caller", "enable_store", << enable >>, "idle")
    /\ stops' = 0
    /\ UNCHANGED << fresh, shown, lastResult >>
    /\ UNCHANGED << managerVars, connectedDevice, processingEnabled, queueVars,
                    stateVars, dev, hostVars >>

\* processingEnabled = enable;
EnableStore(t) ==
    /\ pc[t] = "enable_store"
    /\ processingEnabled' = arg[t][1]
    /\ Goto(t, "enable_branch")
    /\ UNCHANGED << stops, shown, lastResult >>
    /\ fresh' = IF arg[t][1] THEN (fresh \/ ~processingEnabled) ELSE FALSE
    /\ UNCHANGED << managerVars, connectedDevice, queueVars, stateVars, callVars,
                    hostVars >>

\* if (enable && !processingThread.joinable()) ... else if (!enable &&
\* processingThread.joinable()) ...: the test.  processingThread is read here
\* and written at the assignment and at the join with no synchronisation.
EnableBranch(t) ==
    /\ pc[t] = "enable_branch"
    /\ IF arg[t][1] /\ pc["proc"] = "none"
       THEN /\ Goto(t, "enable_spawn")
            /\ UNCHANGED << arg, ret >>
       ELSE IF ~arg[t][1] /\ pc["proc"] # "none"
       THEN /\ Goto(t, "enable_join")
            /\ UNCHANGED << arg, ret >>
       ELSE Return(t)
    /\ UNCHANGED << stops, fresh, shown, lastResult >>
    /\ UNCHANGED << managerVars, connectedDevice, processingEnabled, queueVars,
                    stateVars, dev, hostVars >>

\* processingThread = std::thread(&SwitchProController::neuralProcessingLoop, this);
\* the new thread is constructed and started, then move-assigned.  When another
\* thread has made processingThread joinable since the test, a second loop has
\* been started and the assignment to a joinable std::thread calls
\* std::terminate().
EnableSpawn(t) ==
    /\ pc[t] = "enable_spawn"
    /\ IF pc["proc"] = "none"
       THEN /\ pc' = [pc EXCEPT ![t] = ret[t], !["proc"] = "loop_test"]
            /\ arg' = [arg EXCEPT ![t] = None]
            /\ ret' = [ret EXCEPT ![t] = "idle"]
       ELSE /\ Terminate
            /\ UNCHANGED << arg, ret >>
    /\ UNCHANGED << stops, fresh, shown, lastResult >>
    /\ UNCHANGED << managerVars, connectedDevice, processingEnabled, queueVars,
                    stateVars, dev, hostVars >>

\* processingThread.join() returns once neuralProcessingLoop() has returned;
\* called on processingThread itself it throws.
EnableJoin(t) ==
    /\ pc[t] = "enable_join"
    /\ IF t = "proc"
       THEN /\ Terminate
            /\ UNCHANGED << arg, ret >>
       ELSE /\ pc["proc"] = "exited"
            /\ pc' = [pc EXCEPT ![t] = ret[t], !["proc"] = "none"]
            /\ arg' = [arg EXCEPT ![t] = None]
            /\ ret' = [ret EXCEPT ![t] = "idle"]
    /\ UNCHANGED << stops, fresh, shown, lastResult >>
    /\ UNCHANGED << managerVars, connectedDevice, processingEnabled, queueVars,
                    stateVars, dev, hostVars >>

\* ----------------------------------------------- initialize, start, stop

\* initialize(): "ok", or the step that fails: "create" (IOHIDManagerCreate),
\* "dictionary" (CFDictionaryCreateMutable), "open" (IOHIDManagerOpen).
CallInitialize(h, outcome) ==
    /\ pc["caller"] = "idle"
    /\ managers[h].state = "none"
    /\ \A g \in 1..(h - 1) : managers[g].state # "none"
    /\ hidManager' = IF outcome \in {"create", "open"} THEN NoManager ELSE h
    /\ managers' =
         [managers EXCEPT ![h] =
            CASE outcome = "create"     -> [state |-> "failed", releases |-> 0]
              [] outcome = "dictionary" -> [state |-> "created", releases |-> 1]
              [] outcome = "open"       -> [state |-> "created", releases |-> 1]
              [] OTHER                  -> [state |-> "open", releases |-> 0]]
    /\ stops' = 0
    /\ UNCHANGED << fresh, shown, lastResult >>
    /\ UNCHANGED << isRunning, connectedDevice, processingEnabled, queueVars,
                    stateVars, pc, callVars, hostVars >>

\* start()
CallStart ==
    /\ pc["caller"] = "idle"
    /\ IF ~isRunning /\ hidManager # NoManager
       THEN /\ isRunning' = TRUE
            /\ pc' = [pc EXCEPT !["event"] = "idle"]
       ELSE UNCHANGED << isRunning, pc >>
    /\ stops' = 0
    /\ UNCHANGED << fresh, shown, lastResult >>
    /\ UNCHANGED << hidManager, managers, connectedDevice, processingEnabled,
                    queueVars, stateVars, callVars, hostVars >>

\* stop() entered on thread t: enableNeuralProcessing(false);
CallStopBy(t) ==
    /\ pc[t] = Home(t)
    /\ Call(t, "enable_store", << FALSE >>, "stop_running")
    /\ stops' = IF t = "caller" THEN (IF stops < 2 THEN stops + 1 ELSE 2) ELSE stops
    /\ UNCHANGED << fresh, shown, lastResult >>
    /\ UNCHANGED << managerVars, connectedDevice, processingEnabled, queueVars,
                    stateVars, dev, hostVars >>

\* stop(), called by the caller
CallStop == CallStopBy("caller")

\* stop(): if (isRunning) { isRunning = false; CFRunLoopStop(CFRunLoopGetCurrent());
\* the run loop named is the one of the thread that runs stop().
StopRunningBy(t) ==
    /\ pc[t] = "stop_running"
    /\ IF isRunning
       THEN /\ isRunning' = FALSE
            /\ Goto(t, IF pc["event"] # "none" THEN "stop_join" ELSE "stop_release")
       ELSE /\ Goto(t, "stop_release")
            /\ UNCHANGED isRunning
    /\ UNCHANGED << stops, fresh, shown, lastResult >>
    /\ UNCHANGED << hidManager, managers, connectedDevice, processingEnabled,
                    queueVars, stateVars, callVars, hostVars >>

StopRunning == StopRunningBy("caller")

\* stop(): inputThread.join() returns once CFRunLoopRun() has returned; called
\* on inputThread itself it throws.
StopJoinBy(t) ==
    /\ pc[t] = "stop_join"
    /\ IF t = "event"
       THEN Terminate
       ELSE /\ pc["event"] = "exited"
            /\ pc' = [pc EXCEPT ![t] = "stop_release", !["event"] = "none"]
    /\ UNCHANGED << stops, fresh, shown, lastResult >>
    /\ UNCHANGED << managerVars, connectedDevice, processingEnabled, queueVars,
                    stateVars, callVars, hostVars >>

StopJoin == StopJoinBy("caller")

\* stop(): if (hidManager) { IOHIDManagerClose; CFRelease; hidManager = nullptr; }
StopReleaseBy(t) ==
    /\ pc[t] = "stop_release"
    /\ IF hidManager # NoManager
       THEN /\ managers' = [managers EXCEPT ![hidManager] =
                              [state |-> "closed", releases |-> @.releases + 1]]
            /\ hidManager' = NoManager
       ELSE UNCHANGED << hidManager, managers >>
    /\ Goto(t, Home(t))
    /\ UNCHANGED << stops, fresh, shown, lastResult >>
    /\ UNCHANGED << isRunning, connectedDevice, processingEnabled, queueVars,
                    stateVars, callVars, hostVars >>

StopRelease == StopReleaseBy("caller")

\* ------------------------------------------------------- the host's events

\* CFRunLoopRun() of inputThread returns.  The host decides when: no call of
\* the driver stops this run loop (stop() names the run loop of its caller).
RunLoopReturn ==
    /\ pc["event"] = "idle"
    /\ Goto("event", "exited")
    /\ UNCHANGED << stops, fresh, shown, lastResult >>
    /\ UNCHANGED << managerVars, connectedDevice, processingEnabled, queueVars,
                    stateVars, callVars, hostVars >>

\* deviceAdded() -> setupController(device): connectedDevice = device;
DeviceAdded(device) ==
    /\ pc["event"] = "idle"
    /\ ManagerOpen
    /\ device = matched + 1
    /\ matched' = device
    /\ attached' = attached \cup {device}
    /\ connectedDevice' = device
    /\ dev' = [dev EXCEPT !["event"] = device]
    /\ Goto("event", "setup_handshake")
    /\ UNCHANGED << stops, fresh, shown, lastResult >>
    /\ UNCHANGED << managerVars, processingEnabled, queueVars, stateVars, arg, ret,
                    hostWrites, reports, lastReport, lastCommand >>

\* A connect sequence that goes on whatever the handshake's result.
SetupHandshakeUnchecked(success) ==
    /\ pc["event"] = "setup_handshake"
    /\ SetReport("event", dev["event"], 1, InitData, << "handshake" >>, success)
    /\ dev' = [dev EXCEPT !["event"] = NoDevice]
    /\ Call("event", "led_check", << 1 >>, "setup_rumble")
    /\ UNCHANGED << stops, fresh, shown, lastResult >>
    /\ UNCHANGED << managerVars, connectedDevice, processingEnabled, queueVars,
                    stateVars, eventVars, lastCommand >>

\* setupController(): IOHIDDeviceSetReport(device, ..., 0x01, initData, ...), then
\* setLEDPattern(0x01) if the host reports success.
SetupHandshake(success) ==
    /\ pc["event"] = "setup_handshake"
    /\ SetReport("event", dev["event"], 1, InitData, << "handshake" >>, success)
    /\ dev' = [dev EXCEPT !["event"] = NoDevice]
    /\ IF success
       THEN Call("event", "led_check", << 1 >>, "setup_rumble")
       ELSE /\ Goto("event", "idle")
            /\ UNCHANGED << arg, ret >>
    /\ UNCHANGED << stops, fresh, shown, lastResult >>
    /\ UNCHANGED << managerVars, connectedDevice, processingEnabled, queueVars,
                    stateVars, eventVars, lastCommand >>

\* A connect sequence without its rumble pulse.
SetupRumbleOmitted ==
    /\ pc["event"] = "setup_rumble"
    /\ Goto("event", "setup_enable")
    /\ UNCHANGED << stops, fresh, shown, lastResult, arg, ret >>
    /\ UNCHANGED << managerVars, connectedDevice, processingEnabled, queueVars,
                    stateVars, dev, hostVars >>

\* setupController(): rumble(0x00, 0x20, 100);
SetupRumble ==
    /\ pc["event"] = "setup_rumble"
    /\ Call("event", "rumble_check", << 0, 32 >>, "setup_enable")
    /\ UNCHANGED << stops, fresh, shown, lastResult >>
    /\ UNCHANGED << managerVars, connectedDevice, processingEnabled, queueVars,
                    stateVars, dev, hostVars >>

\* setupController(): enableNeuralProcessing(true);
SetupEnable ==
    /\ pc["event"] = "setup_enable"
    /\ Call("event", "enable_store", << TRUE >>, "idle")
    /\ UNCHANGED << stops, fresh, shown, lastResult >>
    /\ UNCHANGED << managerVars, connectedDevice, processingEnabled, queueVars,
                    stateVars, dev, hostVars >>

\* deviceRemoved(): controller->connectedDevice = nullptr;
DeviceRemoved(device) ==
    /\ pc["event"] = "idle"
    /\ ManagerOpen
    /\ device \in attached
    /\ attached' = attached \ {device}
    /\ connectedDevice' = NoDevice
    /\ UNCHANGED << stops, fresh, shown, lastResult >>
    /\ UNCHANGED << managerVars, processingEnabled, queueVars, stateVars, pc,
                    callVars, hostWrites, matched, reports, lastReport, lastCommand >>

\* A report handler that derives a vector whether processing is enabled or not.
InputReportAlwaysExtracts(success, report, now, junk) ==
    /\ pc["event"] = "idle"
    /\ ManagerOpen
    /\ attached # {}
    /\ reports' = reports + 1
    /\ lastReport' = report
    /\ IF ~success \/ TooShort(report)
       THEN UNCHANGED << currentState, lastTimestamp, features, pc >>
       ELSE /\ currentState' = DecodeState(currentState, report, now, junk)
            /\ features' = [id |-> Len(enqueued) + 1,
                            v |-> FeatureVector(currentState', lastTimestamp)]
            /\ lastTimestamp' = currentState'.timestamp
            /\ Goto("event", "ef_lock")
    /\ UNCHANGED << stops, shown, lastResult >>
    /\ fresh' = IF ~success \/ TooShort(report) THEN fresh ELSE FALSE
    /\ UNCHANGED << managerVars, connectedDevice, processingEnabled, featureQueue,
                    queueMutex, taken, enqueued, delivered, evicted, callVars,
                    hostWrites, attached, matched, lastCommand >>

\* inputReport() -> processInputReport(report, reportLength), up to the lock of
\* extractFeatures(); success is result == kIOReturnSuccess, now is what
\* system_clock::now() returns.
InputReport(success, report, now, junk) ==
    /\ pc["event"] = "idle"
    /\ ManagerOpen
    /\ attached # {}
    /\ reports' = reports + 1
    /\ lastReport' = report
    /\ IF ~success \/ TooShort(report)
       THEN UNCHANGED << currentState, lastTimestamp, features, pc >>
       ELSE /\ currentState' = DecodeState(currentState, report, now, junk)
            /\ IF processingEnabled
               THEN /\ features' = [id |-> Len(enqueued) + 1,
                                    v |-> FeatureVector(currentState', lastTimestamp)]
                    /\ lastTimestamp' = currentState'.timestamp
                    /\ Goto("event", "ef_lock")
               ELSE UNCHANGED << lastTimestamp, features, pc >>
    /\ UNCHANGED << stops, shown, lastResult >>
    /\ fresh' = IF ~success \/ TooShort(report) \/ ~processingEnabled THEN fresh ELSE FALSE
    /\ UNCHANGED << managerVars, connectedDevice, processingEnabled, featureQueue,
                    queueMutex, taken, enqueued, delivered, evicted, callVars,
                    hostWrites, attached, matched, lastCommand >>

\* inputReport() -> processInputReport(report, reportLength) of the basic
\* driver (unnamed/part_000), which decodes the D-pad and prints; it keeps no
\* state.
BasicInputReport(success, report, junk) ==
    /\ pc["event"] = "idle"
    /\ ManagerOpen
    /\ attached # {}
    /\ reports' = reports + 1
    /\ lastReport' = report
    /\ shown' = IF ~success \/ TooShort(report) THEN shown
                ELSE LET buttons1 == ReportByte(report, 1, junk)
                         buttons2 == ReportByte(report, 2, junk)
                         buttons3 == ReportByte(report, 3, junk)
                     IN  [dpad |-> Dpad(buttons3),
                          line |-> Printed(buttons1, buttons2, buttons3)]
    /\ UNCHANGED << stops, fresh, lastResult >>
    /\ UNCHANGED << managerVars, connectedDevice, processingEnabled, queueVars,
                    stateVars, pc, callVars, hostWrites, attached, matched,
                    lastCommand >>

\* extractFeatures(): std::lock_guard<std::mutex> lock(queueMutex);
ExtractLock ==
    /\ pc["event"] = "ef_lock"
    /\ queueMutex = Free
    /\ queueMutex' = "event"
    /\ Goto("event", "ef_push")
    /\ UNCHANGED << stops, fresh, shown, lastResult >>
    /\ UNCHANGED << managerVars, connectedDevice, processingEnabled, featureQueue,
                    features, taken, enqueued, delivered, evicted, stateVars,
                    callVars, hostVars >>

\* extractFeatures(): featureQueue.push(features);
ExtractPush ==
    /\ pc["event"] = "ef_push"
    /\ featureQueue' = Append(featureQueue, features)
    /\ enqueued' = Append(enqueued, features)
    /\ features' = None
    /\ Goto("event", "ef_evict")
    /\ UNCHANGED << stops, fresh, shown, lastResult >>
    /\ UNCHANGED << managerVars, connectedDevice, processingEnabled, queueMutex,
                    taken, delivered, evicted, stateVars, callVars, hostVars >>

Ids(queue) == {queue[i].id : i \in 1..Len(queue)}

\* extractFeatures(): if (featureQueue.size() > 100) featureQueue.pop(); and the
\* end of the lock's scope
ExtractEvict ==
    /\ pc["event"] = "ef_evict"
    /\ featureQueue' = Evict(featureQueue)
    /\ evicted' = evicted \cup (Ids(featureQueue) \ Ids(featureQueue'))
    /\ queueMutex' = Free
    /\ Goto("event", "idle")
    /\ UNCHANGED << stops, fresh, shown, lastResult >>
    /\ UNCHANGED << managerVars, connectedDevice, processingEnabled, features,
                    taken, enqueued, delivered, stateVars, callVars, hostVars >>

\* -------------------------------------------------- neuralProcessingLoop

\* while (processingEnabled), after the 16 ms sleep of the step before
LoopTest ==
    /\ pc["proc"] = "loop_test"
    /\ Goto("proc", IF processingEnabled THEN "lock" ELSE "exited")
    /\ UNCHANGED << stops, fresh, shown, lastResult >>
    /\ UNCHANGED << managerVars, connectedDevice, processingEnabled, queueVars,
                    stateVars, callVars, hostVars >>

\* A loop that enters its critical section without taking the lock.
ConsumerLockNoWait ==
    /\ pc["proc"] = "lock"
    /\ queueMutex' = "proc"
    /\ Goto("proc", "pop")
    /\ UNCHANGED << stops, fresh, shown, lastResult >>
    /\ UNCHANGED << managerVars, connectedDevice, processingEnabled, featureQueue,
                    features, taken, enqueued, delivered, evicted, stateVars,
                    callVars, hostVars >>

\* std::lock_guard<std::mutex> lock(queueMutex);
ConsumerLock ==
    /\ pc["proc"] = "lock"
    /\ queueMutex = Free
    /\ queueMutex' = "proc"
    /\ Goto("proc", "pop")
    /\ UNCHANGED << stops, fresh, shown, lastResult >>
    /\ UNCHANGED << managerVars, connectedDevice, processingEnabled, featureQueue,
                    features, taken, enqueued, delivered, evicted, stateVars,
                    callVars, hostVars >>

\* A step that takes the front vector and drops all the others.
ConsumerPopAll ==
    /\ pc["proc"] = "pop"
    /\ IF featureQueue # << >>
       THEN /\ taken' = Front(featureQueue)
            /\ featureQueue' = << >>
            /\ Goto("proc", "infer")
       ELSE /\ Goto("proc", "loop_test")
            /\ UNCHANGED << taken, featureQueue >>
    /\ queueMutex' = Free
    /\ UNCHANGED << stops, fresh, shown, lastResult >>
    /\ UNCHANGED << managerVars, connectedDevice, processingEnabled, features,
                    enqueued, delivered, evicted, stateVars, callVars, hostVars >>

\* if (!featureQueue.empty()) { features = featureQueue.front(); featureQueue.pop(); }
\* and the end of the lock's scope
ConsumerPop ==
    /\ pc["proc"] = "pop"
    /\ IF featureQueue # << >>
       THEN /\ taken' = Front(featureQueue)
            /\ featureQueue' = Pop(featureQueue)
            /\ Goto("proc", "infer")
       ELSE /\ Goto("proc", "loop_test")
            /\ UNCHANGED << taken, featureQueue >>
    /\ queueMutex' = Free
    /\ UNCHANGED << stops, fresh, shown, lastResult >>
    /\ UNCHANGED << managerVars, connectedDevice, processingEnabled, features,
                    enqueued, delivered, evicted, stateVars, callVars, hostVars >>

\* A loop that rumbles for every label that passes the outer test.
InferAnyLabel(result) ==
    /\ pc["proc"] = "infer"
    /\ delivered' = Append(delivered, taken)
    /\ taken' = None
    /\ IF result # "NO_DATA" /\ result # "PROCESSOR_NOT_READY"
       THEN Call("proc", "rumble_check", << 48, 48 >>, "loop_test")
       ELSE /\ Goto("proc", "loop_test")
            /\ UNCHANGED << arg, ret >>
    /\ lastResult' = result
    /\ UNCHANGED << stops, fresh, shown >>
    /\ UNCHANGED << managerVars, connectedDevice, processingEnabled, featureQueue,
                    queueMutex, features, enqueued, evicted, stateVars, dev, hostVars >>

\* if (!features.empty()) { result = neuralEngine.processControllerFeatures(features);
\* if (result == "GESTURE_DETECTED") rumble(0x30, 0x30, 50); }
Infer(result) ==
    /\ pc["proc"] = "infer"
    /\ delivered' = Append(delivered, taken)
    /\ taken' = None
    /\ IF result # "NO_DATA" /\ result # "PROCESSOR_NOT_READY" /\ result = "GESTURE_DETECTED"
       THEN Call("proc", "rumble_check", << 48, 48 >>, "loop_test")
       ELSE /\ Goto("proc", "loop_test")
            /\ UNCHANGED << arg, ret >>
    /\ lastResult' = result
    /\ UNCHANGED << stops, fresh, shown >>
    /\ UNCHANGED << managerVars, connectedDevice, processingEnabled, featureQueue,
                    queueMutex, features, enqueued, evicted, stateVars, dev, hostVars >>

\* ------------------------------------------------------------------ inputs

\* Input reports of 2, 3, 5 and 14 bytes; bytes 1 and 3 carry buttons (0x0C: A
\* and B), bytes 6, 8, 10 and 12 the stick axes.
Reports ==
    { << 48, 12 >>,
      << 48, 12, 0 >>,
      << 48, 12, 0, 32, 0 >>,
      << 48, 12, 0, 8, 0, 0, 255, 0, 128, 0, 0, 0, 64, 0 >> }

\* 14-byte reports with every value of byte 3, with and without button A, and
\* a 3-byte report.
DpadReports ==
    { << 48, buttons1, 0, buttons3, 0, 0, 128, 0, 128, 0, 128, 0, 128, 0 >> :
        buttons1 \in {0, 8}, buttons3 \in 0..255 }
    \cup { << 48, 0, 0 >> }

\* What a read behind the end of a report may find.
JunkBytes == {0, 96}

\* A rumble call of main() (case 2) and an indicator pattern with high bits set.
CallerRumbles == { << 128, 255 >> }
CallerPatterns == {18}

InitOutcomes == {"ok", "create", "dictionary", "open"}

\* The label of a build in which __OBJC__ is not defined.
BuildLabels == {"OBJC_UNAVAILABLE"}

\* The n-th report of a scripted run: 14 bytes, buttons and axes following n.
ScriptedReport(n) ==
    << 48, n % 256, 0, (32 * n) % 256, 0, 0, (3 * n) % 256, 0, (5 * n) % 256, 0,
       (7 * n) % 256, 0, (11 * n) % 256, 0 >>

\* The clock at the n-th report of a scripted run: 16 ms apart, in microseconds.
ScriptedTime(n) == 16000 * n

\* The frequencies and patterns of the calls in CodecSpec.
Frequencies == {0, 32, 48, 255, 256, 4660, 65535}
Patterns == {0, 1, 5, 15, 16, 18, 165, 240, 255}

\* ----------------------------------------------------------- specifications

CallerStep ==
    \/ \E h \in 1..MaxInits, outcome \in InitOutcomes : CallInitialize(h, outcome)
    \/ CallStart
    \/ CallStop
    \/ StopRunning
    \/ StopJoin
    \/ StopRelease
    \/ \E a \in CallerRumbles : CallRumble(a[1], a[2])
    \/ \E p \in CallerPatterns : CallSetLEDPattern(p)
    \/ \E enable \in BOOLEAN : CallEnableNeuralProcessing(enable)

CommandStep ==
    \/ \E t \in Threads : RumbleCheck(t)
    \/ \E t \in Threads : LedCheck(t)
    \/ \E t \in Threads : EnableStore(t)
    \/ \E t \in Threads : EnableBranch(t)
    \/ \E t \in Threads : EnableSpawn(t)
    \/ \E t \in Threads : EnableJoin(t)

WriteStep ==
    \/ \E t \in Threads : RumbleWrite(t)
    \/ \E t \in Threads : LedWrite(t)

SetupStep ==
    \/ SetupRumble
    \/ SetupEnable

ProducerStep ==
    \/ ExtractLock
    \/ ExtractPush
    \/ ExtractEvict

LoopStep ==
    \/ LoopTest
    \/ ConsumerLock
    \/ ConsumerPop

\* The driver from its construction on: the public operations, the device
\* events and the processing loop (no input report arrives).
Init == Constructed

Next ==
    \/ CallerStep
    \/ CommandStep
    \/ Len(hostWrites) < MaxWrites /\ WriteStep
    \/ Len(hostWrites) < MaxWrites /\ \E success \in BOOLEAN : SetupHandshake(success)
    \/ SetupStep
    \/ RunLoopReturn
    \/ \E device \in 1..MaxDevices : DeviceAdded(device)
    \/ \E device \in 1..MaxDevices : DeviceRemoved(device)
    \/ LoopStep

Spec == Init /\ [][Next]_vars

\* The writes of setupController() for device 1 when the handshake succeeds.
ConnectWrites ==
    << [by |-> "event", dev |-> 1, reportID |-> 1, data |-> InitData,
        call |-> << "handshake" >>, ok |-> TRUE],
       [by |-> "event", dev |-> 1, reportID |-> 1, data |-> LedData(1),
        call |-> << "led", 1 >>, ok |-> TRUE],
       [by |-> "event", dev |-> 1, reportID |-> 16, data |-> RumbleData(0, 32),
        call |-> << "rumble", 0, 32 >>, ok |-> TRUE] >>

\* The driver after initialize(), start() and a device-matched event for
\* device 1: handshake accepted (the processing loop runs) or refused.
ConnectedState(accepted) ==
    /\ hidManager = 1
    /\ managers = [h \in 1..MaxInits |->
                     IF h = 1 THEN [state |-> "open", releases |-> 0]
                     ELSE [state |-> "none", releases |-> 0]]
    /\ isRunning = TRUE
    /\ connectedDevice = 1
    /\ processingEnabled = accepted
    /\ featureQueue = << >>
    /\ queueMutex = Free
    /\ currentState = InitialState
    /\ lastTimestamp = 0
    /\ pc = [t \in Threads |->
               CASE t = "proc" -> (IF accepted THEN "loop_test" ELSE "none")
                 [] OTHER -> "idle"]
    /\ arg = [t \in Threads |-> None]
    /\ dev = [t \in Threads |-> NoDevice]
    /\ ret = [t \in Threads |-> "idle"]
    /\ features = None
    /\ taken = None
    /\ hostWrites = IF accepted THEN ConnectWrites
                    ELSE << [ConnectWrites[1] EXCEPT !.ok = FALSE] >>
    /\ attached = {1}
    /\ matched = 1
    /\ reports = 0
    /\ lastReport = << >>
    /\ lastCommand = IF accepted THEN Command("event", "rumble", TRUE, TRUE)
                     ELSE None
    /\ enqueued = << >>
    /\ delivered = << >>
    /\ evicted = {}
    /\ stops = 0
    /\ fresh = accepted
    /\ shown = None
    /\ lastResult = NoResult

\* The feature queue under a long scripted run of input reports, from the
\* connected state on, in a build without __OBJC__.
QueueInit == ConnectedState(TRUE)

QueueNext ==
    \/ reports < QueueMaxReports
         /\ InputReport(TRUE, ScriptedReport(reports + 1), ScriptedTime(reports + 1), 0)
    \/ ProducerStep
    \/ LoopStep
    \/ \E result \in BuildLabels : Infer(result)

QueueSpec == QueueInit /\ [][QueueNext]_vars

\* Input reports of any length and content, from either connected state on.
ReportInit == \E accepted \in BOOLEAN : ConnectedState(accepted)

ReportNext ==
    \/ reports < MaxReports
         /\ \E success \in BOOLEAN, report \in Reports, now \in 1..MaxTime,
               junk \in JunkBytes :
               InputReport(success, report, now, junk)
    \/ ProducerStep
    \/ LoopStep
    \/ \E result \in BuildLabels : Infer(result)

ReportSpec == ReportInit /\ [][ReportNext]_vars

\* rumble() and setLEDPattern() calls of the caller, with any arguments, on a
\* connected device.
CodecInit == ConnectedState(FALSE)

CodecNext ==
    \/ Len(hostWrites) < 1 + CodecMaxWrites
         /\ \E lowFreq \in Frequencies, highFreq \in Frequencies :
               CallRumble(lowFreq, highFreq)
    \/ Len(hostWrites) < 1 + CodecMaxWrites
         /\ \E pattern \in Patterns : CallSetLEDPattern(pattern)
    \/ RumbleCheck("caller")
    \/ RumbleWrite("caller")
    \/ LedCheck("caller")
    \/ LedWrite("caller")

CodecSpec == CodecInit /\ [][CodecNext]_vars

\* stop() entered on any of the three threads, from either connected state on.
StopInit == ReportInit

StopNext ==
    \/ \E t \in Threads : CallStopBy(t)
    \/ \E t \in Threads : EnableStore(t)
    \/ \E t \in Threads : EnableBranch(t)
    \/ \E t \in Threads : EnableJoin(t)
    \/ \E t \in Threads : StopRunningBy(t)
    \/ \E t \in Threads : StopJoinBy(t)
    \/ \E t \in Threads : StopReleaseBy(t)
    \/ RunLoopReturn
    \/ \E device \in 1..MaxDevices : DeviceRemoved(device)
    \/ LoopStep

StopSpec == StopInit /\ [][StopNext]_vars

\* Input reports while the caller switches processing off and on, from either
\* connected state on.
RestartInit == ReportInit

RestartNext ==
    \/ reports < MaxReports
         /\ \E report \in Reports, now \in 1..MaxTime, junk \in JunkBytes :
               InputReport(TRUE, report, now, junk)
    \/ ProducerStep
    \/ LoopStep
    \/ \E result \in BuildLabels : Infer(result)
    \/ \E enable \in BOOLEAN : CallEnableNeuralProcessing(enable)
    \/ EnableStore("caller")
    \/ EnableBranch("caller")
    \/ EnableSpawn("caller")
    \/ EnableJoin("caller")

RestartSpec == RestartInit /\ [][RestartNext]_vars

\* The report handler of the basic driver on reports with every value of the
\* byte that carries the D-pad, on a connected controller.
DpadInit == ConnectedState(FALSE)

DpadNext ==
    /\ reports < DpadMaxReports
    /\ \E success \in BOOLEAN, report \in DpadReports, junk \in JunkBytes :
          BasicInputReport(success, report, junk)

DpadSpec == DpadInit /\ [][DpadNext]_vars

\* The processing loop with every label the neural engine may return, on a
\* scripted run of input reports, from the connected state on.
LoopInit == ConnectedState(TRUE)

LoopNext ==
    \/ reports < LoopMaxReports
         /\ InputReport(TRUE, ScriptedReport(reports + 1), ScriptedTime(reports + 1), 0)
    \/ ProducerStep
    \/ LoopStep
    \/ \E result \in Labels : Infer(result)
    \/ RumbleCheck("proc")
    \/ RumbleWrite("proc")
    \/ \E device \in 1..MaxDevices : DeviceRemoved(device)

LoopSpec == LoopInit /\ [][LoopNext]_vars

\* The caller switches processing off while the host matches a further
\* device, from the connected state on.
PipelineInit == ConnectedState(TRUE)

\* The steps of the caller inside enableNeuralProcessing().
CallerEnableStep ==
    \/ EnableStore("caller")
    \/ EnableBranch("caller")
    \/ EnableJoin("caller")

\* The steps of the event thread inside setupController().
EventSetupStep ==
    \/ \E success \in BOOLEAN : SetupHandshake(success)
    \/ SetupStep
    \/ LedCheck("event")
    \/ LedWrite("event")
    \/ RumbleCheck("event")
    \/ RumbleWrite("event")
    \/ EnableStore("event")
    \/ EnableBranch("event")
    \/ EnableSpawn("event")

PipelineNext ==
    \/ CallEnableNeuralProcessing(FALSE)
    \/ CallerEnableStep
    \/ \E device \in 1..PipelineMaxDevices : DeviceAdded(device)
    \/ EventSetupStep
    \/ LoopStep

PipelineSpec == PipelineInit /\ [][PipelineNext]_vars

\* Every thread that can take a step takes one in the end (the scheduler
\* starves no thread); the host is free to match a device or not.
PipelineLive ==
    /\ PipelineSpec
    /\ WF_vars(CallerEnableStep)
    /\ WF_vars(EventSetupStep)
    /\ WF_vars(LoopStep)

\* ------------------------------------------------------------------ claims

Min(S) == CHOOSE x \in S : \A y \in S : x <= y

\* C1: in every state in which queueMutex is not held, featureQueue holds at
\* most 100 vectors, whatever the processing loop has popped.
C1_QueueWithinCapacity == queueMutex = Free => Len(featureQueue) <= QueueCapacity

\* A full queue after an eviction, the lock released, nothing popped so far.
C1_Witness ==
    /\ queueMutex = Free
    /\ Len(featureQueue) = QueueCapacity
    /\ evicted # {}
    /\ delivered = << >>
    /\ taken = None

\* C2: a push onto a queue of 100 vectors appends the new vector, and the
\* eviction that follows removes exactly the oldest one and leaves the other
\* 100 in their order, the new vector last, then releases the lock; neither
\* step waits (the lock is already held) and extractFeatures() returns.
C2_FullEnqueueEvictsOldest ==
    /\ [](pc["event"] \in {"ef_push", "ef_evict"} => ENABLED ProducerStep)
    /\ [][ /\ (pc["event"] = "ef_push" /\ pc'["event"] # "ef_push"
                 /\ Len(featureQueue) = QueueCapacity)
              => /\ featureQueue' = Append(featureQueue, features)
                 /\ pc'["event"] = "ef_evict"
           /\ (pc["event"] = "ef_evict" /\ pc'["event"] # "ef_evict"
                 /\ Len(featureQueue) = QueueCapacity + 1)
              => /\ featureQueue' = SubSeq(featureQueue, 2, QueueCapacity + 1)
                 /\ evicted' = evicted \cup {featureQueue[1].id}
                 /\ featureQueue'[QueueCapacity].id = Len(enqueued)
                 /\ queueMutex' = Free
                 /\ pc'["event"] = "idle" ]_vars

\* extractFeatures() has returned from an enqueue onto a full queue: the newest
\* vector is last, the oldest is gone.
C2_Witness ==
    /\ pc["event"] = "idle"
    /\ Len(enqueued) = QueueCapacity + 1
    /\ Len(featureQueue) = QueueCapacity
    /\ featureQueue[QueueCapacity].id = QueueCapacity + 1
    /\ featureQueue[1].id = 2
    /\ evicted = {1}

\* C3: the vectors handed to the neural engine are vectors that were enqueued,
\* in the order of their enqueueing and each at most once, and an enqueued
\* vector that is neither delivered nor still pending was evicted.
C3_DeliveredInOrder ==
    /\ \A i \in 1..Len(delivered) : delivered[i] = enqueued[delivered[i].id]
    /\ \A i \in 1..(Len(delivered) - 1) : delivered[i].id < delivered[i + 1].id
    /\ \A id \in 1..Len(enqueued) :
          \/ id \in Ids(delivered)
          \/ id \in Ids(featureQueue)
          \/ (taken # None /\ taken.id = id)
          \/ id \in evicted

\* Vectors were delivered before and after an eviction.
C3_Witness ==
    /\ evicted # {}
    /\ Len(delivered) >= 2
    /\ delivered[1].id < Min(evicted)
    /\ delivered[Len(delivered)].id > QueueCapacity

\* C4: an input report shorter than 13 bytes leaves currentState and the
\* previous-sample timestamp unchanged and derives no feature vector.
C4_ShortReportDiscarded ==
    [][ (reports' = reports + 1 /\ Len(lastReport') < 13)
        => /\ currentState' = currentState
           /\ lastTimestamp' = lastTimestamp
           /\ features' = features
           /\ pc'["event"] = "idle" ]_vars

C6_RumbleFrequencyBytes ==
    /\ \A i \in 1..Len(hostWrites) :
          hostWrites[i].call[1] = "rumble"
          => LET data == hostWrites[i].data
                 lowFreq == hostWrites[i].call[2]
                 highFreq == hostWrites[i].call[3]
             IN  /\ At(data, 5) = highFreq % 256
                 /\ At(data, 6) = highFreq \div 256
                 /\ At(data, 7) = lowFreq % 256
                 /\ At(data, 8) = lowFreq \div 256
    /\ \A i, j \in 1..Len(hostWrites) :
          hostWrites[i].call = hostWrites[j].call
          => hostWrites[i].data = hostWrites[j].data

\* Two rumble calls with the same pair, both bytes of each frequency in use.
C6_Witness ==
    \E i, j \in 1..Len(hostWrites) :
        /\ i < j
        /\ hostWrites[i].call = << "rumble", 255, 4660 >>
        /\ hostWrites[j].call = << "rumble", 255, 4660 >>

\* C7: an indicator frame is exactly 2 bytes: 0x01, then the pattern with its
\* upper 4 bits cleared.
C7_IndicatorFrame ==
    \A i \in 1..Len(hostWrites) :
        hostWrites[i].call[1] = "led"
        => LET data == hostWrites[i].data
           IN  /\ Len(data) = 2
               /\ At(data, 0) = 1
               /\ At(data, 1) = hostWrites[i].call[2] % 16

\* An indicator frame written for a pattern with upper bits set.
C7_Witness ==
    \E i \in 1..Len(hostWrites) :
        /\ hostWrites[i].call = << "led", 165 >>
        /\ hostWrites[i].data = << 1, 5 >>

\* C8: a rumble() or setLEDPattern() call that finds connectedDevice null
\* returns at once: no host write, no change of the driver's state.
C8_DisconnectedCommandIsNoOp ==
    [][ \A t \in Threads :
          (pc[t] \in {"rumble_check", "led_check"} /\ pc'[t] # pc[t]
             /\ connectedDevice = NoDevice)
          => /\ hostWrites' = hostWrites
             /\ driverState' = driverState
             /\ managers' = managers
             /\ pc'[t] = ret[t] ]_vars

\* A command issued after a removal has returned without a write.
C8_Witness ==
    /\ lastCommand # None
    /\ ~lastCommand.wrote
    /\ lastCommand.by = "caller"
    /\ pc["caller"] = "idle"
    /\ connectedDevice = NoDevice
    /\ matched > 0
    /\ attached = {}

\* C9: no host write is issued to a device handle whose removal has been
\* processed.
C9_NoWriteAfterRemoval ==
    [][ Len(hostWrites') > Len(hostWrites)
        => LET device == hostWrites'[Len(hostWrites')].dev
           IN  device = NoDevice \/ device \in attached ]_vars

\* C10: when a stop() that follows start() and a device-matched event
\* returns, inputThread and processingThread have finished and are joined,
\* and the manager handle was closed and released exactly once.
\* (DeviceAdded needs the event thread, so matched > 0 implies start().)
C10_StopLeavesNothingRunning ==
    [][ (pc["caller"] = "stop_release" /\ pc'["caller"] = "idle" /\ matched > 0)
        => /\ pc'["event"] = "none"
           /\ pc'["proc"] = "none"
           /\ hidManager' = NoManager
           /\ \A h \in 1..MaxInits :
                 managers'[h].state = "closed" => managers'[h].releases = 1 ]_vars

\* C11: stop() entered on the event thread or on the processing thread never
\* comes to join the thread it runs on, and the process is not terminated.
C11_StopNeverJoinsItself ==
    /\ pc["proc"] # "enable_join"
    /\ pc["event"] # "stop_join"
    /\ \A t \in Threads : pc[t] # "terminated"

\* Thread t is inside stop().
InStop(t) ==
    \/ pc[t] \in {"stop_running", "stop_join", "stop_release"}
    \/ pc[t] \in {"enable_store", "enable_branch", "enable_join"} /\ ret[t] = "stop_running"

\* C12: start() creates the event thread only when the driver is not running
\* and never replaces one that exists, and no step of a stop() that directly
\* follows a completed stop() changes the driver's state or a manager handle,
\* joins a thread or waits for one.
C12_StartStopIdempotent ==
    [][ /\ (pc["event"] = "none" /\ pc'["event"] # "none")
           => (~isRunning /\ isRunning' /\ hidManager # NoManager)
        /\ (pc["event"] = "exited" /\ pc'["event"] # "exited")
           => pc'["event"] \in {"none", "terminated"}
        /\ (stops = 2 /\ InStop("caller") /\ pc'["caller"] # pc["caller"])
           => /\ driverState' = driverState
              /\ managers' = managers
              /\ pc'["proc"] = pc["proc"]
              /\ pc'["event"] = pc["event"]
              /\ pc["caller"] \notin {"enable_join", "stop_join"} ]_vars

\* C13: while every initialize() so far has failed, no event thread exists,
\* and no manager handle is ever released twice.
C13_FailedInitializeLeavesNothing ==
    /\ (\A h \in 1..MaxInits : managers[h].state \in {"none", "failed", "created"})
       => pc["event"] = "none"
    /\ \A h \in 1..MaxInits : managers[h].releases <= 1

\* C14: after a rumble() or setLEDPattern() call whose host write failed, the
\* caller holds a value other than the one a successful write returns, and
\* no thread was terminated.
C14_WriteResultReported ==
    /\ (lastCommand # None /\ lastCommand.wrote /\ ~lastCommand.accepted)
       => lastCommand.returned # Returned(TRUE)
    /\ \A t \in Threads : pc[t] # "terminated"

\* C15: in every vector handed to the neural engine, the flag at the position
\* of a button is 1 exactly when the report the vector was derived from has
\* that button's bit set (so a report with A and B pressed gives 1, 1, 0, ...).
C15_ButtonFlagsEndToEnd ==
    \A i \in 1..Len(delivered) :
        \A k \in 1..Len(FlagButtons) :
            (delivered[i].v[6 + k] = 1)
                <=> Pressed(ScriptedReport(delivered[i].id), FlagButtons[k])

\* C16: the first vector derived after processing is switched on (at the
\* connect sequence or after it was switched off) has time delta 0.
C16_FirstTimeDeltaIsZero ==
    [][ (fresh /\ features' # features /\ features' # None)
        => features'.v[17] = 0 ]_vars

\* The frames the event thread has written to device d, in order.
EventFrames(d) ==
    LET ws == SelectSeq(hostWrites, LAMBDA w : w.by = "event" /\ w.dev = d)
    IN  [i \in 1..Len(ws) |-> << ws[i].reportID, ws[i].data >>]

\* Report 0x01 {0x80, 0x01}, report 0x01 {0x01, 0x01}, report 0x10 with the
\* frame of rumble(0x00, 0x20).
ConnectFrames ==
    << << 1, << 128, 1 >> >>,
       << 1, << 1, 1 >> >>,
       << 16, << 16, 128, 0, 0, 0, 32, 0, 0, 0, 0, 0, 0, 0, 0 >> >> >>

\* C17: the frames the connect sequence writes to a device are, in this
\* order and once each, the handshake {0x80, 0x01}, the indicator pattern
\* 0x01 and one rumble pulse; once the handshake has succeeded the indicator
\* frame is written before the rumble call and the rumble frame before
\* processing is enabled, and the device is then the connected one.
C17_ConnectWritesInOrder ==
    /\ \A d \in 1..MaxDevices :
          /\ Len(EventFrames(d)) <= 3
          /\ EventFrames(d) = SubSeq(ConnectFrames, 1, Len(EventFrames(d)))
    /\ pc["event"] = "setup_rumble"
       => (connectedDevice # NoDevice /\ Len(EventFrames(connectedDevice)) = 2)
    /\ (pc["event"] = "setup_enable"
          \/ (pc["event"] \in {"enable_store", "enable_branch", "enable_spawn"}
                /\ arg["event"] = << TRUE >>))
       => (connectedDevice # NoDevice /\ Len(EventFrames(connectedDevice)) = 3)

\* A connect sequence has run to its end: three frames, processing enabled.
C17_Witness ==
    /\ pc["event"] = "idle"
    /\ connectedDevice = 1
    /\ EventFrames(1) = ConnectFrames
    /\ processingEnabled
    /\ pc["proc"] \notin {"none", "exited"}

\* The writes made to device d, in order.
WritesTo(d) == SelectSeq(hostWrites, LAMBDA w : w.dev = d)

\* C18: the first write a device receives is the handshake frame, and no
\* device receives the handshake twice.
C18_HandshakeFirst ==
    \A d \in 1..MaxDevices :
        /\ WritesTo(d) # << >> => WritesTo(d)[1].call = << "handshake" >>
        /\ \A i \in 2..Len(WritesTo(d)) : WritesTo(d)[i].call # << "handshake" >>

\* The host refused the handshake of device d.
HandshakeRefused(d) ==
    \E i \in 1..Len(hostWrites) :
        /\ hostWrites[i].dev = d
        /\ hostWrites[i].call = << "handshake" >>
        /\ ~hostWrites[i].ok

\* C19: after a refused handshake the connect sequence writes nothing more to
\* the device (no indicator, no rumble, no second handshake), the handle stays
\* in connectedDevice until a device is removed or matched, the refusal stops
\* no thread and leaves the driver running, and every rumble() or
\* setLEDPattern() call that finds the handle goes on to a host write to that
\* device.
C19_HandshakeFailureIsNotFatal ==
    /\ [](\A d \in 1..MaxDevices :
            HandshakeRefused(d) => Len(EventFrames(d)) = 1)
    /\ [][
        /\ (connectedDevice # NoDevice /\ HandshakeRefused(connectedDevice)
              /\ connectedDevice' # connectedDevice)
           => attached' # attached
        /\ (pc["event"] = "setup_handshake" /\ pc'["event"] = "idle")
           => /\ isRunning' = isRunning
              /\ connectedDevice' = connectedDevice
              /\ connectedDevice' = dev["event"]
              /\ \A t \in Threads \ {"event"} : pc'[t] = pc[t]
        /\ \A t \in Threads :
              /\ (pc[t] \in {"rumble_check", "led_check"} /\ pc'[t] # pc[t]
                    /\ connectedDevice # NoDevice
                    /\ HandshakeRefused(connectedDevice))
                 => /\ pc'[t] \in {"rumble_write", "led_write"}
                    /\ dev'[t] = connectedDevice
              /\ (pc[t] \in {"rumble_write", "led_write"} /\ pc'[t] # pc[t]
                    /\ HandshakeRefused(dev[t]) /\ connectedDevice = dev[t])
                 => /\ Len(hostWrites') = Len(hostWrites) + 1
                    /\ hostWrites'[Len(hostWrites')].dev = dev[t]
       ]_vars

\* After a refused handshake the caller's rumble() has written to the device.
C19_Witness ==
    /\ HandshakeRefused(1)
    /\ Len(hostWrites) = 2
    /\ hostWrites[2].by = "caller"
    /\ hostWrites[2].dev = 1
    /\ hostWrites[2].call[1] = "rumble"
    /\ connectedDevice = 1
    /\ pc["caller"] = "idle"
    /\ pc["event"] = "idle"

\* The direction for each value of the low 4 bits: clockwise from up for 0 to
\* 7, neutral for 8 to 15.
Compass ==
    << "up", "up-right", "right", "down-right", "down", "down-left", "left",
       "up-left", "neutral", "neutral", "neutral", "neutral", "neutral",
       "neutral", "neutral", "neutral" >>

\* C20: the direction decoded from a report is the one its byte 3 gives by
\* its low 4 bits alone, and a report with no button pressed and a low nibble
\* of 8 to 15 is not taken for D-pad input (no line is printed for it).
C20_DpadDecoding ==
    (shown # None /\ Len(lastReport) > 3)
    => LET buttons3 == At(lastReport, 3)
       IN  /\ shown.dpad = Compass[(buttons3 % 16) + 1]
           /\ (buttons3 % 16 >= 8
                 /\ ~AnyPressed(At(lastReport, 1), At(lastReport, 2), buttons3))
              => ~shown.line

\* C21: a step of the processing loop starts with no vector in hand, takes at
\* most one vector (the front one) and hands at most one to the neural engine;
\* on an empty queue it goes straight back to the loop test: nothing popped,
\* nothing inferred, no host write, and the step is taken without waiting for
\* a vector.
C21_OneVectorPerStep ==
    /\ [](pc["proc"] \in {"loop_test", "lock", "pop"} => taken = None)
    /\ [](pc["proc"] = "pop" => ENABLED ConsumerPop)
    /\ [][
        /\ (pc["proc"] \in {"loop_test", "lock", "pop"} /\ pc'["proc"] # pc["proc"])
           => /\ hostWrites' = hostWrites
              /\ delivered' = delivered
              /\ lastResult' = lastResult
        /\ (pc["proc"] = "pop" /\ pc'["proc"] # "pop" /\ featureQueue = << >>)
           => /\ featureQueue' = featureQueue
              /\ taken' = None
              /\ pc'["proc"] = "loop_test"
        /\ (pc["proc"] = "pop" /\ pc'["proc"] # "pop" /\ featureQueue # << >>)
           => /\ Len(featureQueue') = Len(featureQueue) - 1
              /\ taken' = featureQueue[1]
              /\ pc'["proc"] = "infer"
        /\ (pc["proc"] = "infer" /\ pc'["proc"] # "infer")
           => /\ delivered' = Append(delivered, taken)
              /\ featureQueue' = featureQueue
              /\ taken' = None
              /\ pc'["proc"] \in {"loop_test", "rumble_check"}
        /\ delivered' # delivered => pc["proc"] = "infer"
       ]_vars

\* The loop is at its pop with an empty queue, after a step that delivered a
\* vector, while a second vector waits for the lock.
C21_Witness ==
    /\ pc["proc"] = "pop"
    /\ featureQueue = << >>
    /\ Len(delivered) = 1
    /\ pc["event"] = "ef_lock"

\* The writes the processing loop has made.
LoopWrites == SelectSeq(hostWrites, LAMBDA w : w.by = "proc")

\* C22: the loop calls rumble(0x30, 0x30) after an inference exactly when the
\* label returned is GESTURE_DETECTED; for any other label it goes back to the
\* loop test with no host write; every write of the loop is that rumble
\* frame, and a vector once handed to the neural engine is not handed again.
C22_RumbleOnlyOnGesture ==
    /\ [](pc["proc"] \in {"rumble_check", "rumble_write"}
            => (lastResult = "GESTURE_DETECTED" /\ arg["proc"] = << 48, 48 >>))
    /\ [](\A i \in 1..Len(LoopWrites) :
            /\ LoopWrites[i].call = << "rumble", 48, 48 >>
            /\ LoopWrites[i].reportID = 16
            /\ LoopWrites[i].data = << 16, 128, 0, 0, 0, 48, 0, 48, 0, 0, 0, 0, 0, 0 >>)
    /\ [](Len(LoopWrites) <= Len(delivered))
    /\ [](\A i, j \in 1..Len(delivered) : delivered[i].id = delivered[j].id => i = j)
    /\ [][ (pc["proc"] = "infer" /\ pc'["proc"] # "infer")
           => /\ hostWrites' = hostWrites
              /\ featureQueue' = featureQueue
              /\ taken' = None
              /\ lastResult' \in Labels
              /\ IF lastResult' = "GESTURE_DETECTED"
                 THEN pc'["proc"] = "rumble_check" /\ arg'["proc"] = << 48, 48 >>
                 ELSE pc'["proc"] = "loop_test" ]_vars

\* Two vectors were handed over: a gesture was detected in one (one rumble
\* frame written), the neural engine was unavailable for the other.
C22_Witness ==
    /\ Len(delivered) = 2
    /\ Len(LoopWrites) = 1
    /\ lastResult = "OBJC_UNAVAILABLE"
    /\ pc["proc"] = "loop_test"

\* C23: the event thread between its push and the end of its eviction and the
\* processing loop between its emptiness test and its pop are never both
\* under way; each is there exactly while it holds queueMutex; featureQueue
\* changes only in a step of the thread that holds queueMutex; and while the
\* event thread is between push and eviction the loop neither enters its
\* section nor sees the queue.
C23_QueueMutualExclusion ==
    /\ [](~(pc["event"] \in {"ef_push", "ef_evict"} /\ pc["proc"] = "pop"))
    /\ [](queueMutex = "event" <=> pc["event"] \in {"ef_push", "ef_evict"})
    /\ [](queueMutex = "proc" <=> pc["proc"] = "pop")
    /\ [][
        /\ featureQueue' # featureQueue
           => \/ (queueMutex = "event" /\ pc'["event"] # pc["event"])
              \/ (queueMutex = "proc" /\ pc'["proc"] # pc["proc"])
        /\ (pc["event"] \in {"ef_push", "ef_evict"} /\ pc'["proc"] # pc["proc"])
           => /\ pc'["proc"] # "pop"
              /\ taken' \in {taken, None}
              /\ featureQueue' = featureQueue
        /\ (pc["proc"] = "pop" /\ pc'["event"] # pc["event"])
           => /\ pc'["event"] \notin {"ef_push", "ef_evict"}
              /\ featureQueue' = featureQueue
       ]_vars

\* The event thread has pushed onto a full queue and not yet evicted, while
\* the processing loop waits for the lock.
C23_Witness ==
    /\ pc["event"] = "ef_evict"
    /\ queueMutex = "event"
    /\ Len(featureQueue) = QueueCapacity + 1
    /\ pc["proc"] = "lock"

\* C24: every vector pushed has 17 elements; its four stick fields and its two
\* trigger fields lie between 0 and 1 (0 and 510 in the model's unit of
\* 1/510), each of its eight button fields is 0 or 1, and its time delta is
\* not negative.
C24_VectorWellFormed ==
    \A i \in 1..Len(enqueued) :
        LET v == enqueued[i].v
        IN  /\ Len(v) = 17
            /\ \A k \in 1..4 : v[k] \in 0..510
            /\ \A k \in 5..6 : v[k] \in 0..510
            /\ \A k \in 7..14 : v[k] \in {0, 1}
            /\ v[17] >= 0

\* Two vectors were pushed, one with a stick at its upper end (byte 255), the
\* second derived at a clock reading below that of the first.
C24_Witness ==
    /\ Len(enqueued) = 2
    /\ enqueued[1].v[1] = 510
    /\ enqueued[2].v[17] > MaxTime

\* C25: when a vector is derived and one was derived before it (processing
\* enabled throughout), its time delta is the timestamp just decoded minus the
\* timestamp of the sample before, and the timestamp just decoded is not below
\* that of the sample before.
C25_TimeDeltaBetweenSamples ==
    [][ (features' # features /\ features' # None /\ features'.id > 1)
        => /\ features'.v[17] = currentState'.timestamp - currentState.timestamp
           /\ currentState'.timestamp >= currentState.timestamp ]_vars

\* C26: a processing thread is created only while none exists: at the step
\* that creates one, the thread object is not joinable (no loop is running and
\* none has finished without being joined).
C26_SingleProcessingLoop ==
    [][ \A t \in Threads :
          (pc[t] = "enable_spawn" /\ pc'[t] # pc[t]) => pc["proc"] = "none" ]_vars

\* C27: an enableNeuralProcessing(false) call of the caller (the only call
\* the caller makes in PipelineSpec) returns in the end, and when it returns no processing loop is left running by it: the
\* thread it found was joined.
C27_DisableReturns ==
    /\ [](pc["caller"] \in {"enable_store", "enable_branch", "enable_join"}
           => <>(pc["caller"] = "idle"))
    /\ [][ (pc["caller"] = "enable_join" /\ pc'["caller"] = "idle")
           => pc'["proc"] = "none" ]_vars

\* C28: an input report that arrives while processingEnabled is false leaves
\* the queue, the vectors pushed, the vector in preparation and the
\* previous-sample timestamp as they are and the event thread free; if it has
\* at least 3 bytes it is decoded into currentState (timestamp and buttons
\* updated), otherwise currentState is unchanged.
C28_DisabledReportOnlyUpdatesState ==
    [][ (reports' = reports + 1 /\ ~processingEnabled)
        => /\ featureQueue' = featureQueue
           /\ enqueued' = enqueued
           /\ features' = features
           /\ lastTimestamp' = lastTimestamp
           /\ pc'["event"] = "idle"
           /\ IF Len(lastReport') >= 3
              THEN /\ \E now \in 1..MaxTime, junk \in JunkBytes :
                         currentState' = DecodeState(currentState, lastReport', now, junk)
                   /\ currentState'.timestamp \in 1..MaxTime
                   /\ BitAnd(currentState'.buttons, 15) = At(lastReport', 1) % 16
              ELSE currentState' = currentState ]_vars

\* Reports have arrived with processing never enabled: currentState carries
\* the buttons and the time of a report, no vector was derived or pushed.
C28_Witness ==
    /\ ~processingEnabled
    /\ pc["proc"] = "none"
    /\ reports = 2
    /\ Len(lastReport) >= 3
    /\ currentState.timestamp > 0
    /\ currentState.buttons # 0
    /\ lastTimestamp = 0
    /\ enqueued = << >>
    /\ features = None

\* C29: when a report is decoded, every index read lies below the report's
\* length, and the buttons decoded do not depend on what lies behind the
\* report's last byte.
C29_ReadsWithinReport ==
    [][ (reports' = reports + 1 /\ currentState' # currentState)
        => /\ \A i \in IndicesRead(lastReport') : i < Len(lastReport')
           /\ \A junk \in JunkBytes :
                 currentState'.buttons =
                     DecodeButtons(ReportByte(lastReport', 1, junk),
                                   ReportByte(lastReport', 3, junk)) ]_vars

\* C30: once a stop() of the caller has returned and until the caller's next
\* call, the driver is not running and holds no manager, and no step starts
\* an event thread or sets the running flag; and every host write is made
\* while a manager is open (none after stop() has closed and released it).
C30_NothingAfterStop ==
    /\ []((stops >= 1 /\ pc["caller"] = "idle")
           => (~isRunning /\ hidManager = NoManager))
    /\ [][
        /\ (stops >= 1 /\ pc["caller"] = "idle" /\ stops' >= 1)
           => /\ isRunning' = isRunning
              /\ pc["event"] = "none" => pc'["event"] = "none"
        /\ (hidManager = NoManager /\ pc["caller"] = "idle" /\ pc'["caller"] = "idle"
              /\ hidManager' = NoManager)
           => /\ isRunning' = isRunning
              /\ pc["event"] = "none" => pc'["event"] = "none"
        /\ Len(hostWrites') > Len(hostWrites) => ManagerOpen
       ]_vars

====
